---- MODULE Spec2Model ----
(***************************************************************************)
(* The conversation engine of idea-agent: the /ask handler of main.py      *)
(* (self-healing repair pass, then app_graph.invoke) and the LangGraph     *)
(* workflow of app/graph.py (requirement_agent, developer_agent, tools)    *)
(* compiled with a MemorySaver checkpointer keyed by thread_id.            *)
(*                                                                         *)
(* A request handler is a process: AskStart is the synchronous prefix of   *)
(* the handler (repair pass, loading the checkpoint, appending the input), *)
(* and every later action is one superstep of the graph, which ends with   *)
(* the checkpoint of the thread being overwritten by the run's channels.   *)
(* The language model and the tools are collaborators: what an agent       *)
(* replies, and whether a collaborator raises, is a nondeterministic       *)
(* choice. Tool-call identifiers are generated fresh by the provider.      *)
(*                                                                         *)
(* The service layer (app/database.py, app/tools/memory_tool.py and the    *)
(* /publish and /republish endpoints) is modelled by SpecServices and      *)
(* SpecEndpoints: one invocation of a function at a time, with the HTTP    *)
(* requests it has made so far and what Laravel answered to each.          *)
(*                                                                         *)
(* kb-admin (knowledge bases, documents, vectorization, learned knowledge) *)
(* is modelled on its MySQL tables and the Redis keys of its vector        *)
(* indexes by SpecKb, SpecVectors, SpecVectorizeKb and SpecLearned. MySQL  *)
(* answers every statement; the embedding service and Redis may raise.     *)
(***************************************************************************)
EXTENDS Integers, Sequences, FiniteSets, Bags, TLC

\* ------------------------------------------------------------------ bounds
MaxAsks == 2            \* /ask requests received in one behaviour
MaxCallsPerReply == 2   \* tool calls carried by one AIMessage
RecursionLimit == 4     \* supersteps of one app_graph.invoke: LangGraph's
                        \* recursion_limit (the library default is 25)
MaxIds == 2             \* tool-call identifiers generated in one behaviour
MaxNewThreads == 2      \* /ask requests without thread_id in one behaviour
MaxSaves == 2           \* documents kept in session_memory in one behaviour
MaxKbs == 2             \* rows inserted into knowledge_bases in one behaviour
MaxDocs == 1            \* rows inserted into kb_documents in one behaviour
MaxChunks == 2          \* chunks the longest document content splits into
MaxLearned == 1         \* rows inserted into learned_knowledge in one behaviour

Threads == {"t1"}       \* thread_id values a client supplies
\* str(uuid.uuid4()): the n-th identifier the server generates; each call gives
\* an identifier no client has supplied and no earlier call has returned
Uuid(n) == <<"u1", "u2", "u3", "u4">>[n]
Generated == {Uuid(n) : n \in 1..MaxNewThreads}
\* the keys of the checkpointer
ThreadIds == Threads \cup Generated
\* q.thread_id of a request that carries none
None == "None"
\* the values of an optional string that "or" and "not" take as absent
Falsy == {None, ""}
Reqs == {1, 2}          \* request handlers that may be in flight together
Workers == {1, 2}       \* kb-admin calls that may be in flight together

\* ------------------------------------------------------------------ messages
\* tool names on the wire; "other" stands for every name outside the registry
ToolNames == {"save_requirements", "save_solution", "search_knowledge_base", "other"}

\* HumanMessage(content=q.question)
HumanMessage == [kind |-> "human", name |-> "none", calls |-> <<>>, tcid |-> 0]
\* HumanMessage(content=str(result), name=tool_name): what tool_node appends
ToolResultAsHuman(nm) == [kind |-> "human", name |-> nm, calls |-> <<>>, tcid |-> 0]
\* ToolMessage(tool_call_id=..., content=..., name=...): what the repair pass injects
ToolMessage(id, nm) == [kind |-> "tool", name |-> nm, calls |-> <<>>, tcid |-> id]
\* AIMessage with tool_calls = calls (a sequence of [id, name]); <<>> is plain text
AIMessage(calls) == [kind |-> "ai", name |-> "none", calls |-> calls, tcid |-> 0]

\* the tool_calls of a reply: n calls of tool nm with fresh identifiers first..first+n-1
FreshCalls(first, n, nm) == [k \in 1..n |-> [id |-> first + k - 1, name |-> nm]]

\* isinstance(msg, AIMessage) and msg.tool_calls
HasToolCalls(m) == m.kind = "ai" /\ m.calls # <<>>

CallIds(m) == {m.calls[k].id : k \in DOMAIN m.calls}

\* ------------------------------------------------------------------ repair pass
\* range(len(messages) - 1, -1, -1) ... break: the most recent AIMessage with tool_calls
LastToolCallIndex(msgs) ==
    LET S == {i \in DOMAIN msgs : HasToolCalls(msgs[i])}
    IN  IF S = {} THEN 0 ELSE CHOOSE i \in S : \A j \in S : j <= i

\* the look-ahead loop: ToolMessages after position i, up to the first AI or Human message
RespondedIds(msgs, i) ==
    {msgs[j].tcid : j \in {j \in (i + 1)..Len(msgs) :
                              \A m \in (i + 1)..j : msgs[m].kind = "tool"}}

\* tool_messages: one ToolMessage per tool call of msg whose id is missing, in call order
Placeholders(msg, missing) ==
    LET want == SelectSeq(msg.calls, LAMBDA c : c.id \in missing)
    IN  [k \in DOMAIN want |-> ToolMessage(want[k].id, want[k].name)]

\* the messages the self-healing block passes to update_state (<<>> when it does nothing)
RepairInjection(msgs) ==
    LET i == LastToolCallIndex(msgs)
    IN  IF i = 0 THEN <<>>
        ELSE Placeholders(msgs[i], CallIds(msgs[i]) \ RespondedIds(msgs, i))

\* faulty variant: the placeholders are put right after the AIMessage they answer
Repair_Insert(msgs) ==
    LET i == LastToolCallIndex(msgs)
    IN  SubSeq(msgs, 1, i) \o RepairInjection(msgs) \o SubSeq(msgs, i + 1, Len(msgs))

\* update_state(config, {"messages": tool_messages}): operator.add appends to the channel
Repair(msgs) == msgs \o RepairInjection(msgs)

\* ------------------------------------------------------------------ graph
AgentNodes == {"requirement_agent", "developer_agent"}

\* workflow.set_entry_point("requirement_agent"): an invoke with input starts here
EntryPoint == "requirement_agent"

\* faulty variant: every AIMessage is routed to tools, with tool_calls or without
AgentConditional_AnyReply(msgs) ==
    IF msgs[Len(msgs)].kind = "ai" THEN "tools" ELSE "END"

\* requirement_conditional / developer_conditional
AgentConditional(msgs) ==
    IF HasToolCalls(msgs[Len(msgs)]) THEN "tools" ELSE "END"

\* tool_node: the registry branch taken for tool_calls[0]
KnownTools == {"save_requirements", "save_solution", "search_knowledge_base"}

\* faulty variant: save_requirements ends the run instead of handing off
ToolNextStep_NoHandoff(nm) ==
    CASE nm = "save_requirements" -> "end"
      [] nm = "save_solution" -> "end"
      [] nm = "search_knowledge_base" -> "developer"

\* faulty variant: save_solution goes back to the developer agent instead of ending
ToolNextStep_NoTerminal(nm) ==
    CASE nm = "save_requirements" -> "developer"
      [] nm = "save_solution" -> "developer"
      [] nm = "search_knowledge_base" -> "developer"

\* tool_node: the "next_step" written for a tool of the registry
ToolNextStep(nm) ==
    CASE nm = "save_requirements" -> "developer"
      [] nm = "save_solution" -> "end"
      [] nm = "search_knowledge_base" -> "developer"

\* faulty variant: the dispatcher retries, invoking the tool of tool_calls[0] twice
ToolDispatch_Retry(last) ==
    IF HasToolCalls(last) /\ last.calls[1].name \in KnownTools
    THEN <<last.calls[1].id, last.calls[1].id>> ELSE <<>>

\* tool_node: the identifiers whose tool it invokes (tool_calls[0] only, once)
ToolDispatch(last) ==
    IF HasToolCalls(last) /\ last.calls[1].name \in KnownTools
    THEN <<last.calls[1].id>> ELSE <<>>

\* faulty variant: the result of the tool is appended twice
ToolNodeMessages_Twice(last) ==
    IF HasToolCalls(last) /\ last.calls[1].name \in KnownTools
    THEN <<ToolResultAsHuman(last.calls[1].name),
           ToolResultAsHuman(last.calls[1].name)>> ELSE <<>>

\* tool_node: the messages it returns
ToolNodeMessages(last) ==
    IF HasToolCalls(last) /\ last.calls[1].name \in KnownTools
    THEN <<ToolResultAsHuman(last.calls[1].name)>> ELSE <<>>

\* tool_node: the next_step channel after the node (unwritten for an unknown tool)
ToolNodeNextStep(last, old) ==
    IF HasToolCalls(last) /\ last.calls[1].name \in KnownTools
    THEN ToolNextStep(last.calls[1].name) ELSE old

\* tool_conditional
ToolConditional(next_step) ==
    IF next_step = "developer" THEN "developer_agent"
    ELSE IF next_step = "end" THEN "END"
    ELSE "developer_agent"

\* faulty variant: the cap is applied one superstep late
WithinLimit_OffByOne(steps) == steps <= RecursionLimit

\* app_graph.invoke(inputs, config=config): a superstep runs only while the run has
\* made fewer than recursion_limit supersteps (the config sets none: the default)
WithinLimit(steps) == steps < RecursionLimit

\* ------------------------------------------------------------------ state
VARIABLES
    store,       \* MemorySaver: thread_id -> latest checkpoint [messages, next_step]
    req,         \* request handler -> its position and the channels of its run
                 \* (before, seen: the repaired history and the dispatches
                 \* made when its invoke began)
    nextId,      \* the next tool-call identifier the model provider generates
    asks,        \* /ask requests received so far
    dispatched,  \* bag of tool-call identifiers whose tool was invoked
    response,    \* the outcome of the handler that answered last
    invocation,      \* the call of a function of the service layer (database.py,
                     \* the tools, /publish, /republish) in progress or returned last
    api_key_cache,   \* database.py: _api_key_cache, for the one user of the model
    session_memory,  \* memory_tool.py: session_memory
    mysql,           \* kb-admin: the tables knowledge_bases, kb_documents and
                     \* learned_knowledge, with their AUTO_INCREMENT counters
    redis,           \* kb-admin: the vector indexes and the chunk hashes
    handler,         \* kb-admin: worker -> the KBService call it is executing
    kb_reply         \* kb-admin: the outcome of the call that ended last

\* the conversation engine, the service layer and the kb-admin service
engine == <<store, req, nextId, asks, dispatched, response>>
services == <<invocation, api_key_cache, session_memory>>
admin == <<mysql, redis, handler, kb_reply>>
vars == <<store, req, nextId, asks, dispatched, response,
          invocation, api_key_cache, session_memory,
          mysql, redis, handler, kb_reply>>

EmptyCheckpoint == [messages |-> <<>>, next_step |-> "none"]

Idle ==
    [pc |-> "idle", tid |-> "none", is_new_conversation |-> FALSE,
     messages |-> <<>>, next_step |-> "none",
     node |-> "none", steps |-> 0, before |-> <<>>, seen |-> EmptyBag]

\* no message: the last_message of a handler that answered with an error
NoMessage == [kind |-> "none", name |-> "none", calls |-> <<>>, tcid |-> 0]

\* what a handler answers: its outcome, the thread, the supersteps its run made
\* and last_message = result['messages'][-1], whose content is the "response" field
Response(r, status, steps, last) ==
    [tid |-> req[r].tid, status |-> status, steps |-> steps, last |-> last]

NoResponse == [tid |-> "none", status |-> "none", steps |-> 0, last |-> NoMessage]

\* the arguments of a call of the service layer; "-" where a function has none
NoInput == [thread_id |-> "-", doc |-> "-", ai_provider |-> "-", ai_api_key |-> "-"]

\* what a call returns or answers; "-" and 0 where a function has none
NoResult ==
    [value |-> "-", provider |-> "-", api_key |-> "-", status_code |-> 0,
     detail |-> "-", generated |-> FALSE, title |-> FALSE, solutions_created |-> 0]

\* no call yet. log is the outcome of each HTTP request the call has made
NoCall == [fn |-> "none", pc |-> "idle", input |-> NoInput, log |-> <<>>,
           result |-> NoResult]

\* _api_key_cache = {}
EmptyCache == [present |-> FALSE, fresh |-> FALSE, provider |-> "-", api_key |-> "-"]

\* kb-admin: empty tables, no index, nothing in flight
EmptyTables ==
    [knowledge_bases |-> {}, kb_seq |-> 0,
     kb_documents |-> {}, doc_seq |-> 0,
     learned_knowledge |-> {}, lk_seq |-> 0]
EmptyRedis == [indexes |-> {}, chunks |-> {}]
NoHandler ==
    [fn |-> "none", pc |-> "idle", agent_type |-> "-", kb_id |-> 0,
     existed |-> FALSE, error |-> "-"]
NoRow == [id |-> 0, agent_type |-> "-", status |-> "-", question |-> "-"]
NoReply ==
    [fn |-> "none", id |-> 0, input |-> "-", outcome |-> "-", error |-> "-",
     before |-> NoRow, after |-> NoRow,
     kb_id |-> 0, total_documents |-> 0, processed |-> 0, failed |-> 0,
     counted |-> <<>>]

Init ==
    /\ store = [t \in ThreadIds |-> EmptyCheckpoint]
    /\ req = [r \in Reqs |-> Idle]
    /\ nextId = 1
    /\ asks = 0
    /\ dispatched = EmptyBag
    /\ response = NoResponse
    /\ invocation = NoCall
    /\ api_key_cache = EmptyCache
    /\ session_memory = [requirements |-> <<>>, solutions |-> <<>>]
    /\ mysql = EmptyTables
    /\ redis = EmptyRedis
    /\ handler = [w \in Workers |-> NoHandler]
    /\ kb_reply = NoReply

Running(r) == req[r].pc = "run"

\* faulty variant: every thread_id is stored under one key
CheckpointKey_Shared(t) == "t1"

\* config = {"configurable": {"thread_id": thread_id}}: the checkpointer files
\* the state of a run under its thread_id
CheckpointKey(t) == t

\* the identifiers uuid4 has returned so far: an /ask checkpoints its input at once
UsedUuids == {u \in Generated : store[u].messages # <<>>}

\* faulty variant: a request without thread_id falls back to a fixed thread
ThreadIdOf_Default(q_thread_id) ==
    IF q_thread_id = None THEN "t1" ELSE q_thread_id

\* thread_id = q.thread_id or str(uuid.uuid4())
ThreadIdOf(q_thread_id) ==
    IF q_thread_id \in Falsy THEN Uuid(Cardinality(UsedUuids) + 1) ELSE q_thread_id

\* ask_question up to the first superstep: the thread_id is taken or generated,
\* the repair pass runs on the stored state, then invoke loads the checkpoint,
\* appends the input and checkpoints it.
\* Handlers are interchangeable: the idle one of lowest number takes the request.
AskStart(r, q_thread_id) ==
    /\ req[r].pc = "idle"
    /\ \A q \in Reqs : q < r => Running(q)
    /\ asks < MaxAsks
    /\ q_thread_id \in Falsy => Cardinality(UsedUuids) < MaxNewThreads
    /\ LET t == ThreadIdOf(q_thread_id)
           repaired == Repair(store[CheckpointKey(t)].messages)
           msgs == Append(repaired, HumanMessage)
       IN  /\ store' = [store EXCEPT ![CheckpointKey(t)].messages = msgs]
           /\ req' = [req EXCEPT ![r] =
                        [pc |-> "run", tid |-> t,
                         is_new_conversation |-> (q_thread_id = None),
                         messages |-> msgs,
                         next_step |-> store[CheckpointKey(t)].next_step,
                         node |-> EntryPoint,
                         steps |-> 0, before |-> repaired, seen |-> dispatched]]
    /\ asks' = asks + 1
    /\ UNCHANGED <<nextId, dispatched, response>>
    /\ UNCHANGED <<services, admin>>

\* the end of a superstep: the channels are checkpointed, and either the next
\* node is scheduled or invoke returns and the handler answers "completed"
Commit(r, msgs, next_step, next) ==
    /\ store' = [store EXCEPT ![CheckpointKey(req[r].tid)] =
                    [messages |-> msgs, next_step |-> next_step]]
    /\ req' = [req EXCEPT ![r] =
                 IF next = "END" THEN Idle
                 ELSE [@ EXCEPT !.messages = msgs, !.next_step = next_step,
                                !.node = next, !.steps = @ + 1]]
    /\ response' = IF next = "END"
                   THEN Response(r, "completed", req[r].steps + 1, msgs[Len(msgs)])
                   ELSE response

\* agent.invoke(messages) returns a reply, which the node appends
AgentReply(r) ==
    /\ \E calls \in {<<>>} \cup {FreshCalls(nextId, n, nm) :
                                    n \in 1..MaxCallsPerReply, nm \in ToolNames} :
          /\ nextId + Len(calls) - 1 <= MaxIds
          /\ LET msgs == Append(req[r].messages, AIMessage(calls))
             IN  /\ Commit(r, msgs, req[r].next_step, AgentConditional(msgs))
                 /\ nextId' = nextId + Len(calls)
    /\ UNCHANGED <<asks, dispatched>>
    /\ UNCHANGED <<services, admin>>

requirement_node(r) ==
    /\ Running(r)
    /\ req[r].node = "requirement_agent"
    /\ WithinLimit(req[r].steps)
    /\ AgentReply(r)

developer_node(r) ==
    /\ Running(r)
    /\ req[r].node = "developer_agent"
    /\ WithinLimit(req[r].steps)
    /\ AgentReply(r)

\* a node raises: invoke propagates, the handler answers with an HTTP error
\* and the checkpoint of the last completed superstep stays
Raise(r, resp) ==
    /\ req' = [req EXCEPT ![r] = Idle]
    /\ response' = Response(r, resp, req[r].steps, NoMessage)
    /\ UNCHANGED <<store, nextId, asks>>
    /\ UNCHANGED <<services, admin>>

\* get_llm raises ValueError (no configuration, unsupported provider)
AgentConfigError(r) ==
    /\ Running(r)
    /\ req[r].node \in AgentNodes
    /\ WithinLimit(req[r].steps)
    /\ Raise(r, "config_error")
    /\ UNCHANGED dispatched

\* agent.invoke raises a ValueError that does not come from get_llm (a library
\* rejecting what the provider returned, a decoding error): the handler's
\* "except ValueError" catches it like the one of get_llm
AgentValueError(r) ==
    /\ Running(r)
    /\ req[r].node \in AgentNodes
    /\ WithinLimit(req[r].steps)
    /\ Raise(r, "value_error")
    /\ UNCHANGED dispatched

\* agent.invoke raises an exception that is not a ValueError (provider error, timeout)
AgentError(r) ==
    /\ Running(r)
    /\ req[r].node \in AgentNodes
    /\ WithinLimit(req[r].steps)
    /\ Raise(r, "agent_error")
    /\ UNCHANGED dispatched

\* tool_node returns
tool_node(r) ==
    /\ Running(r)
    /\ req[r].node = "tools"
    /\ WithinLimit(req[r].steps)
    /\ LET last == req[r].messages[Len(req[r].messages)]
           msgs == req[r].messages \o ToolNodeMessages(last)
           ns == ToolNodeNextStep(last, req[r].next_step)
           ids == ToolDispatch(last)
       IN  /\ Commit(r, msgs, ns, ToolConditional(ns))
           /\ dispatched' = dispatched (+) [k \in {ids[j] : j \in DOMAIN ids} |->
                                Cardinality({j \in DOMAIN ids : ids[j] = k})]
    /\ UNCHANGED <<nextId, asks>>
    /\ UNCHANGED <<services, admin>>

\* the tool invoked by tool_node raises
ToolError(r) ==
    /\ Running(r)
    /\ req[r].node = "tools"
    /\ WithinLimit(req[r].steps)
    /\ LET last == req[r].messages[Len(req[r].messages)]
           ids == ToolDispatch(last)
       IN  /\ ids # <<>>
           /\ dispatched' = dispatched (+) [k \in {ids[j] : j \in DOMAIN ids} |->
                                Cardinality({j \in DOMAIN ids : ids[j] = k})]
    /\ Raise(r, "tool_error")

\* a node is scheduled after recursion_limit supersteps: GraphRecursionError
RecursionError(r) ==
    /\ Running(r)
    /\ ~WithinLimit(req[r].steps)
    /\ Raise(r, "recursion_error")
    /\ UNCHANGED dispatched

Next ==
    \/ \E r \in Reqs, q_thread_id \in Threads \cup {None} : AskStart(r, q_thread_id)
    \/ \E r \in Reqs : requirement_node(r)
    \/ \E r \in Reqs : developer_node(r)
    \/ \E r \in Reqs : AgentConfigError(r)
    \/ \E r \in Reqs : AgentValueError(r)
    \/ \E r \in Reqs : AgentError(r)
    \/ \E r \in Reqs : tool_node(r)
    \/ \E r \in Reqs : ToolError(r)
    \/ \E r \in Reqs : RecursionError(r)

Spec == Init /\ [][Next]_vars

\* ------------------------------------------------------------------ GET /conversation
\* faulty variant: messages with a name are not skipped
Listed_KeepNamed(m) ==
    /\ ~(m.kind = "ai" /\ m.calls # <<>>)
    /\ m.kind \in {"human", "ai"}

\* get_conversation: a message is listed unless it has a name, or is an AIMessage
\* with tool_calls, or is neither a HumanMessage nor an AIMessage
Listed(m) ==
    /\ m.name = "none"
    /\ ~(m.kind = "ai" /\ m.calls # <<>>)
    /\ m.kind \in {"human", "ai"}

\* get_conversation(thread_id), given the messages of the thread's checkpoint
GetConversation(msgs) ==
    LET kept == SelectSeq(msgs, Listed)
        listing == [k \in DOMAIN kept |->
                      [role |-> IF kept[k].kind = "human" THEN "user" ELSE "assistant",
                       message |-> kept[k]]]
    IN  [messages |-> listing, message_count |-> Len(listing)]

\* ask_question: the HTTP status of each outcome ("except ValueError" gives 400,
\* "except Exception" gives 500, a returned body is 200)
StatusCode(status) ==
    CASE status = "completed" -> 200
      [] status \in {"config_error", "value_error"} -> 400
      [] OTHER -> 500

\* ------------------------------------------------------------------ service layer
\* The functions of app/database.py, the tools of app/tools/memory_tool.py and
\* the handlers /publish and /republish. The Laravel API is a collaborator:
\* the outcome of each HTTP request is a nondeterministic choice. One call is
\* followed at a time, from its start to its return.

\* max_retries = 3
MaxRetries == 3

\* one HTTP request of a call and what came of it
Http(method, outcome) == [method |-> method, outcome |-> outcome]

\* the requests a call has made with a given method
Requests(log, method) == {i \in DOMAIN log : log[i].method = method}

\* a function of the service layer is called
Begin(fn, input) ==
    /\ invocation.pc # "running"
    /\ invocation' = [fn |-> fn, pc |-> "running", input |-> input, log |-> <<>>,
                      result |-> NoResult]

\* the call returns value with the requests of log made
Return(log, value) ==
    invocation' = [invocation EXCEPT !.pc = "returned", !.log = log,
                                     !.result.value = value]

\* "if attempt < max_retries - 1: continue", else "return None"
RetryOrNone(attempt, log) ==
    IF attempt < MaxRetries - 1
    THEN invocation' = [invocation EXCEPT !.log = log]
    ELSE Return(log, "None")

\* faulty variant: no response counts as a success
Succeeded_Never(outcome) == FALSE

\* response.status_code == 200, with a body response.json() decodes
Succeeded(outcome) == outcome = "200"

\* what a POST can come to: status 200 with a JSON body, status 200 with a body
\* response.json() rejects, another status, requests.exceptions.Timeout, any
\* other exception
PostOutcomes == {"200", "200_undecodable", "non200", "timeout", "error"}

\* one iteration of the loop of save_requirements_to_laravel and
\* save_solution_to_laravel: one POST, then return the data, retry, or return None
PostAttempt ==
    /\ invocation.pc = "running"
    /\ \E outcome \in PostOutcomes :
          LET attempt == Len(invocation.log)
              log == Append(invocation.log, Http("POST", outcome))
          IN  IF Succeeded(outcome)
              THEN Return(log, "data")
              ELSE RetryOrNone(attempt, log)
    /\ UNCHANGED <<api_key_cache, session_memory>>
    /\ UNCHANGED <<engine, admin>>

save_requirements_to_laravel ==
    /\ invocation.fn = "save_requirements_to_laravel"
    /\ PostAttempt

save_solution_to_laravel ==
    /\ invocation.fn = "save_solution_to_laravel"
    /\ PostAttempt

\* what the GET of the conversation can come to: status 200 with the
\* conversation as data, status 200 without data, another status, Timeout, any
\* other exception
GetOutcomes == {"200", "200_no_data", "non200", "timeout", "error"}

\* what the PUT of the update can come to
PutOutcomes == {"200", "non200", "timeout", "error"}

\* the success branch of the PUT, lines 330-332: the print before the return
\* formats {conversation_id}, a name the function does not define (its
\* parameter is thread_id), so NameError is raised before "return" and caught
\* by "except Exception", which retries
AfterPut200(attempt, log) == RetryOrNone(attempt, log)

\* one iteration of the loop of update_solution_requirements and
\* update_solution_technical: the GET of the conversation, then the PUT
UpdateAttempt ==
    /\ invocation.pc = "running"
    /\ \E get \in GetOutcomes, put \in PutOutcomes :
          LET attempt == Cardinality(Requests(invocation.log, "GET"))
              got == Append(invocation.log, Http("GET", get))
              log == Append(got, Http("PUT", put))
          IN  IF get # "200"
              \* non-200: retry or None. No data: the print of line 315 formats
              \* {conversation_id} too, NameError, retry or None. Exceptions: same.
              THEN /\ put = "200"    \* no PUT is made: one choice stands for all
                   /\ RetryOrNone(attempt, got)
              ELSE IF put = "200"
                   THEN AfterPut200(attempt, log)
                   ELSE RetryOrNone(attempt, log)
    /\ UNCHANGED <<api_key_cache, session_memory>>
    /\ UNCHANGED <<engine, admin>>

update_solution_requirements ==
    /\ invocation.fn = "update_solution_requirements"
    /\ UpdateAttempt

update_solution_technical ==
    /\ invocation.fn = "update_solution_technical"
    /\ UpdateAttempt

\* what the GET of /api/internal/ai-settings can come to: status 200 whose body
\* has success and data; status 200 whose body has no success; status 200 whose
\* body json() cannot decode; another status; Timeout; ConnectionError; any
\* other exception
ApiOutcomes == {"200", "200_no_success", "200_undecodable", "non200",
                "timeout", "connection_error", "error"}

\* the providers Laravel's settings can name, and the key it returns
LaravelProviders == {"openai", "anthropic", "gemini"}
LaravelKey == "lk"

Settings(provider, api_key) == [value |-> "data", provider |-> provider, api_key |-> api_key]
NoSettings == [value |-> "None", provider |-> "-", api_key |-> "-"]

\* variant that retries after every failure
Retryable_AnyFailure(outcome) == outcome # "200"

\* the two except clauses that let the loop go on: Timeout and ConnectionError
Retryable(outcome) == outcome \in {"timeout", "connection_error"}

\* the call returns to its caller
ReturnSettings(log, s) ==
    invocation' = [invocation EXCEPT !.pc = "returned", !.log = log,
                                     !.result.value = s.value,
                                     !.result.provider = s.provider,
                                     !.result.api_key = s.api_key]

\* lines 97-107: the configuration made from Laravel's settings
ConfigOf(s) ==
    IF s.value = "None" THEN NoSettings
    ELSE CASE s.provider = "openai" -> Settings("OpenAI", s.api_key)
           [] s.provider = "anthropic" -> Settings("Anthropic", s.api_key)
           [] OTHER -> NoSettings

\* one step of get_api_key_from_laravel: the cache lookup that answers at once,
\* or one iteration of its loop. When get_llm_config is the caller, the result
\* goes through lines 97-107 before it is returned.
ApiKeyAttempt(caller) ==
    /\ invocation.pc = "running"
    /\ LET Finish(log, s) ==
               ReturnSettings(log, IF caller = "get_llm_config" THEN ConfigOf(s) ELSE s)
       IN
       IF invocation.log = <<>> /\ api_key_cache.present /\ api_key_cache.fresh
       THEN /\ Finish(<<>>, Settings(api_key_cache.provider, api_key_cache.api_key))
            /\ UNCHANGED api_key_cache
       ELSE \E outcome \in ApiOutcomes, provider \in LaravelProviders :
               LET attempt == Len(invocation.log)
                   log == Append(invocation.log, Http("GET", outcome))
               IN  CASE outcome = "200" ->
                          /\ api_key_cache' = [present |-> TRUE, fresh |-> TRUE,
                                               provider |-> provider, api_key |-> LaravelKey]
                          /\ Finish(log, Settings(provider, LaravelKey))
                     [] Retryable(outcome) /\ attempt < MaxRetries - 1 ->
                          /\ invocation' = [invocation EXCEPT !.log = log]
                          /\ UNCHANGED api_key_cache
                     \* a response without success breaks out of the loop; the
                     \* last Timeout or ConnectionError is re-raised, and every
                     \* exception ends in "except Exception": return None
                     [] OTHER ->
                          /\ Finish(log, NoSettings)
                          /\ UNCHANGED api_key_cache
    /\ UNCHANGED session_memory
    /\ UNCHANGED <<engine, admin>>

get_api_key_from_laravel ==
    /\ invocation.fn = "get_api_key_from_laravel"
    /\ ApiKeyAttempt("get_api_key_from_laravel")

\* time passes beyond _cache_ttl
CacheExpires ==
    /\ api_key_cache.present
    /\ api_key_cache.fresh
    /\ api_key_cache' = [api_key_cache EXCEPT !.fresh = FALSE]
    /\ UNCHANGED <<invocation, session_memory>>
    /\ UNCHANGED <<engine, admin>>

\* the values a caller passes for ai_provider and ai_api_key
Providers == {None, "", "OpenAI", "openai", "anthropic", "gemini"}
Keys == {None, "", "k"}

\* str.lower() on the provider strings
Lower(p) == IF p = "OpenAI" THEN "openai" ELSE p

\* lines 89-93: the supplied settings are used when both are truthy and the
\* provider, lower-cased, is openai or anthropic
Direct(ai_provider, ai_api_key) ==
    /\ ai_provider \notin Falsy
    /\ ai_api_key \notin Falsy
    /\ Lower(ai_provider) \in {"openai", "anthropic"}

get_llm_config ==
    /\ invocation.fn = "get_llm_config"
    /\ LET ai_provider == invocation.input.ai_provider
           ai_api_key == invocation.input.ai_api_key
       IN  IF Direct(ai_provider, ai_api_key)
           THEN /\ invocation.pc = "running"
                /\ ReturnSettings(<<>>, Settings(IF Lower(ai_provider) = "openai"
                                                 THEN "OpenAI" ELSE "Anthropic",
                                                 ai_api_key))
                /\ UNCHANGED <<api_key_cache, session_memory>>
                /\ UNCHANGED <<engine, admin>>
           ELSE ApiKeyAttempt("get_llm_config")

\* a caller asks for the settings of the user
CallSettings ==
    /\ \/ Begin("get_api_key_from_laravel", NoInput)
       \/ \E p \in Providers, k \in Keys :
             Begin("get_llm_config", [NoInput EXCEPT !.ai_provider = p, !.ai_api_key = k])
    /\ UNCHANGED <<api_key_cache, session_memory>>
    /\ UNCHANGED <<engine, admin>>

\* thread_id values and documents passed to the service layer
Docs == {"d1", "d2"}

\* a caller invokes one of the functions of database.py that talk to Laravel in a loop
CallDatabase ==
    /\ \E fn \in {"save_requirements_to_laravel", "save_solution_to_laravel",
                  "update_solution_requirements", "update_solution_technical"},
          t \in Threads, d \in Docs :
          Begin(fn, [NoInput EXCEPT !.thread_id = t, !.doc = d])
    /\ UNCHANGED <<api_key_cache, session_memory>>
    /\ UNCHANGED <<engine, admin>>

\* the values a request body can carry for thread_id and requirements
BodyValues == {None, "", "given"}

\* how generate_technical_solution ends: with a result, with ValueError (no AI
\* configuration), with any other exception
GenerateOutcomes == {"ok", "value_error", "error"}

RequiredDetail == "thread_id and requirements are required"

\* str() of the HTTPException that was raised inside the try block
StrOfHTTPException == {"", "400: thread_id and requirements are required"}

\* the body of publish_solution and of republish_solution, from the request to
\* the response; the bodies differ in is_republish and in the response message
Publish(fn) ==
    /\ \E thread_id \in BodyValues, requirements \in BodyValues,
          outcome \in GenerateOutcomes, detail \in StrOfHTTPException :
          LET input == [NoInput EXCEPT !.thread_id = thread_id, !.doc = requirements]
              Respond(status_code, d, generated) ==
                  invocation' = [fn |-> fn, pc |-> "returned", input |-> input, log |-> <<>>,
                                 result |-> [NoResult EXCEPT !.status_code = status_code,
                                                             !.detail = d,
                                                             !.generated = generated]]
          IN  IF thread_id \in Falsy \/ requirements \in Falsy
              \* HTTPException(400) is raised inside the try; it is not a
              \* ValueError, it is an Exception: "except Exception" answers
              \* 500 with str(e) as detail
              THEN /\ outcome = "ok"
                   /\ Respond(500, detail, FALSE)
              ELSE /\ detail = ""
                   /\ CASE outcome = "ok" -> Respond(200, "-", TRUE)
                        [] outcome = "value_error" -> Respond(400, "value_error", TRUE)
                        [] OTHER -> Respond(500, "error", TRUE)
    /\ UNCHANGED <<api_key_cache, session_memory>>
    /\ UNCHANGED <<engine, admin>>

publish_solution ==
    /\ invocation.pc # "running"
    /\ Publish("publish_solution")

republish_solution ==
    /\ invocation.pc # "running"
    /\ Publish("republish_solution")

\* the answers of the two tools
ToolAnswers == {"saved_to_database", "session_memory_only_failed", "session_memory_only"}

\* the body of save_requirements and of save_solution: the document is appended
\* to the list of session_memory, then, with a thread_id, it is sent to Laravel
\* (the conversation, then the solution); persisted tells whether the first of
\* these came back with data
SaveTool(fn, list) ==
    /\ Len(session_memory.requirements) + Len(session_memory.solutions) < MaxSaves
    /\ \E thread_id \in Threads \cup {None}, doc \in Docs, persisted \in BOOLEAN :
          /\ session_memory' = [session_memory EXCEPT ![list] = Append(@, doc)]
          /\ thread_id \in Falsy => persisted
          /\ invocation' =
                [fn |-> fn, pc |-> "returned",
                 input |-> [NoInput EXCEPT !.thread_id = thread_id, !.doc = doc],
                 log |-> <<>>,
                 result |-> [NoResult EXCEPT !.value =
                                IF thread_id \in Falsy THEN "session_memory_only"
                                ELSE IF persisted THEN "saved_to_database"
                                ELSE "session_memory_only_failed"]]
    /\ UNCHANGED api_key_cache
    /\ UNCHANGED <<engine, admin>>

save_requirements ==
    /\ invocation.pc # "running"
    /\ SaveTool("save_requirements", "requirements")

save_solution ==
    /\ invocation.pc # "running"
    /\ SaveTool("save_solution", "solutions")

ServicesNext ==
    \/ CallDatabase
    \/ save_requirements_to_laravel
    \/ save_solution_to_laravel
    \/ update_solution_requirements
    \/ update_solution_technical
    \/ CallSettings
    \/ get_api_key_from_laravel
    \/ get_llm_config
    \/ CacheExpires

SpecServices == Init /\ [][ServicesNext]_vars

\* what the POST of the conversation metadata can come to
MetadataOutcomes == {"200", "200_no_data", "non200", "error"}

\* ask_question from the request to the response, with the run of the graph
\* taken as one step: the thread_id is taken or generated, the graph is
\* invoked, and after a completed run the title is derived for a new
\* conversation, the metadata is posted and, for a new conversation whose
\* metadata came back, create_solution is called
ask_question ==
    /\ invocation.pc # "running"
    /\ \E q_thread_id \in Threads \cup Falsy,
          run \in {"completed", "config_error", "error"},
          saved \in MetadataOutcomes :
          LET thread_id == ThreadIdOf(q_thread_id)
              is_new_conversation == q_thread_id = None
              conversation_data == saved = "200"
              create == is_new_conversation /\ conversation_data
              log == <<Http("POST", saved)>> \o
                     (IF create THEN <<Http("POST", "solution")>> ELSE <<>>)
          IN  /\ run # "completed" => saved = "200"
              /\ invocation' =
                    [fn |-> "ask_question", pc |-> "returned",
                     input |-> [NoInput EXCEPT !.thread_id = q_thread_id],
                     log |-> IF run = "completed" THEN log ELSE <<>>,
                     result |-> [NoResult EXCEPT
                                    !.value = thread_id,
                                    !.status_code = StatusCode(run),
                                    !.title = run = "completed" /\ is_new_conversation,
                                    !.solutions_created =
                                        IF run = "completed" /\ create THEN 1 ELSE 0]]
    /\ UNCHANGED <<api_key_cache, session_memory>>
    /\ UNCHANGED <<engine, admin>>

\* the endpoints and tools that stand on the service layer
EndpointsNext ==
    \/ publish_solution
    \/ republish_solution
    \/ save_requirements
    \/ save_solution
    \/ ask_question

SpecEndpoints == Init /\ [][EndpointsNext]_vars

\* ------------------------------------------------------------------ kb-admin
\* Every execute_query opens a connection, runs one statement and commits:
\* a statement is atomic, a method that issues several is not. A worker
\* executes one KBService call, statement by statement; Workers calls may be
\* in flight together.
AgentTypes == {"requirement_agent", "developer_agent", "generic"}

\* index_name = f"kb_{agent_type}"
IndexName(agent_type) == <<"kb_", agent_type>>

\* SELECT * FROM knowledge_bases WHERE id = %s
KbById(kb_id) == {row \in mysql.knowledge_bases : row.id = kb_id}

\* SELECT * FROM knowledge_bases WHERE agent_type = %s ... LIMIT 1, as a truth value
ExistingKb(agent_type) ==
    \E row \in mysql.knowledge_bases : row.agent_type = agent_type

Busy(w) == handler[w].pc \in {"index", "insert", "drop", "delete"}

\* the INSERTs that calls in flight will still make
PendingInserts == Cardinality({w \in Workers : handler[w].pc \in {"index", "insert"}})

\* one statement of KBService.create_kb executed by worker w; agent_type is
\* kb_data.agent_type of the call that begins
create_kb(w, agent_type) ==
    /\ \/ /\ ~Busy(w)
          /\ mysql.kb_seq + PendingInserts < MaxKbs
          /\    handler' = [handler EXCEPT ![w] =
                    IF ExistingKb(agent_type)
                    THEN [NoHandler EXCEPT !.fn = "create_kb", !.pc = "raised",
                                           !.agent_type = agent_type, !.existed = TRUE,
                                           !.error = "Knowledge Base already exists"]
                    ELSE [NoHandler EXCEPT !.fn = "create_kb", !.pc = "index",
                                           !.agent_type = agent_type]]
          /\ UNCHANGED <<mysql, redis>>
       \/ /\ handler[w].fn = "create_kb"
          /\ handler[w].pc = "index"
          /\ \E created \in BOOLEAN :
                IF created
                \* create_vector_index: an index that exists is left as it is
                THEN /\ redis' = [redis EXCEPT !.indexes = @ \cup {IndexName(handler[w].agent_type)}]
                     /\ handler' = [handler EXCEPT ![w].pc = "insert"]
                ELSE /\ redis' = redis
                     /\ handler' = [handler EXCEPT ![w].pc = "raised", ![w].error = "redis"]
          /\ UNCHANGED mysql
       \/ /\ handler[w].fn = "create_kb"
          /\ handler[w].pc = "insert"
          /\ LET kb_id == mysql.kb_seq + 1
             IN  /\ mysql' = [mysql EXCEPT
                        !.kb_seq = kb_id,
                        !.knowledge_bases = @ \cup
                            {[id |-> kb_id, agent_type |-> handler[w].agent_type,
                              status |-> "draft"]}]
                 /\ handler' = [handler EXCEPT ![w].pc = "returned", ![w].kb_id = kb_id]
          /\ UNCHANGED redis
    /\ UNCHANGED kb_reply
    /\ UNCHANGED <<engine, services>>

\* one statement of KBService.delete_kb executed by worker w
delete_kb(w) ==
    /\ \/ /\ ~Busy(w)
          /\ \E kb_id \in 1 .. MaxKbs :
                handler' = [handler EXCEPT ![w] =
                    IF KbById(kb_id) = {}
                    THEN [NoHandler EXCEPT !.fn = "delete_kb", !.pc = "returned",
                                           !.kb_id = kb_id, !.error = "not found"]
                    ELSE [NoHandler EXCEPT !.fn = "delete_kb", !.pc = "drop",
                                           !.kb_id = kb_id, !.existed = TRUE,
                                           !.agent_type =
                                               (CHOOSE row \in KbById(kb_id) : TRUE).agent_type]]
          /\ UNCHANGED <<mysql, redis>>
       \/ /\ handler[w].fn = "delete_kb"
          /\ handler[w].pc = "drop"
          /\ \E dropped \in BOOLEAN :
                IF dropped
                \* dropindex(delete_documents=True); an index that does not
                \* exist is a ResponseError, answered with False
                THEN /\ redis' = [indexes |-> redis.indexes \ {IndexName(handler[w].agent_type)},
                                  chunks |-> {c \in redis.chunks :
                                                 c.index # IndexName(handler[w].agent_type)}]
                     /\ handler' = [handler EXCEPT ![w].pc = "delete"]
                ELSE /\ redis' = redis
                     /\ handler' = [handler EXCEPT ![w].pc = "raised", ![w].error = "redis"]
          /\ UNCHANGED mysql
       \/ /\ handler[w].fn = "delete_kb"
          /\ handler[w].pc = "delete"
          \* DELETE FROM knowledge_bases WHERE id = %s (cascade will delete documents)
          /\ mysql' = [mysql EXCEPT
                !.knowledge_bases = {row \in @ : row.id # handler[w].kb_id},
                !.kb_documents = {doc \in @ : doc.kb_id # handler[w].kb_id}]
          /\ handler' = [handler EXCEPT ![w].pc = "returned"]
          /\ UNCHANGED redis
    /\ UNCHANGED kb_reply
    /\ UNCHANGED <<engine, services>>

\* KBService.activate_kb, called by PUT /{kb_id}/activate
activate_kb ==
    /\ \E kb_id \in 1 .. MaxKbs :
          IF KbById(kb_id) = {}
          THEN /\ kb_reply' = [NoReply EXCEPT !.fn = "activate_kb", !.id = kb_id,
                                              !.outcome = "raised", !.error = "not found"]
               /\ mysql' = mysql
          ELSE /\ kb_reply' = [NoReply EXCEPT !.fn = "activate_kb", !.id = kb_id,
                                              !.outcome = "returned"]
               /\ mysql' = [mysql EXCEPT !.knowledge_bases =
                               {IF row.id = kb_id THEN [row EXCEPT !.status = "active"] ELSE row
                                   : row \in @}]
    /\ UNCHANGED <<redis, handler>>
    /\ UNCHANGED <<engine, services>>

KbNext ==
    \/ \E w \in Workers, agent_type \in AgentTypes : create_kb(w, agent_type)
    \/ \E w \in Workers : delete_kb(w)
    \/ activate_kb

SpecKb == Init /\ [][KbNext]_vars

\* ------------------------------------------------------------------ kb-admin: documents
\* A row of kb_documents: size stands for the content, as the number of chunks
\* ChunkingService.chunk_document splits it into (0: nothing but white space);
\* learned_id is metadata["learned_id"], 0 without it.
DocById(db, doc_id) == {doc \in db.kb_documents : doc.id = doc_id}

SetDoc(db, doc) ==
    [db EXCEPT !.kb_documents = {IF d.id = doc.id THEN doc ELSE d : d \in @}]

\* faulty variant: the UPDATE is not made
update_document_status_Skipped(doc, status, chunk_count) == doc

\* DocumentService.update_document_status; chunk_count is <<>> when not given
update_document_status(doc, status, chunk_count) ==
    IF chunk_count # <<>>
    THEN [doc EXCEPT !.status = status, !.chunk_count = chunk_count[1]]
    ELSE [doc EXCEPT !.status = status]

\* chunk_key = f"{index_name}:doc:{doc_id}:{idx}"
ChunkKey(index, doc_id, idx) == [index |-> index, doc |-> doc_id, idx |-> idx]

\* _store_vectors_in_redis stopped after n hset calls: each key is written
\* over, no key is removed
store_vectors_in_redis(rd, index, doc_id, n) ==
    [rd EXCEPT !.chunks = @ \cup {ChunkKey(index, doc_id, idx) : idx \in 0 .. (n - 1)}]

\* how the collaborators of vectorize_document behave: all succeed; the
\* embedding service raises (as Redis raising at the first hset, nothing is
\* stored); it returns another number of vectors than chunks; Redis raises at
\* the last hset
VectorizeOutcomes == {"ok", "embed_error", "mismatch", "store_error"}

\* VectorizationService.vectorize_document on tables db and Redis rd: the
\* tables and Redis it leaves, and "True", "False" or "raised"
VectorizeDocument(db, rd, doc_id, outcome) ==
    LET unchanged == [mysql |-> db, redis |-> rd, result |-> "False"]
    IN  IF DocById(db, doc_id) = {} THEN unchanged
        ELSE LET doc == CHOOSE d \in DocById(db, doc_id) : TRUE
                 kbs == {row \in db.knowledge_bases : row.id = doc.kb_id}
             IN  IF kbs = {} THEN unchanged
                 ELSE LET kb == CHOOSE row \in kbs : TRUE
                          index == IndexName(kb.agent_type)
                          n == doc.size
                          Failed(count, rd2, result) ==
                              [mysql |-> SetDoc(db, update_document_status(doc, "failed", count)),
                               redis |-> rd2, result |-> result]
                      IN  IF n = 0 THEN Failed(<<0>>, rd, "False")
                          ELSE CASE outcome = "embed_error" -> Failed(<<>>, rd, "raised")
                                 [] outcome = "mismatch" -> Failed(<<0>>, rd, "False")
                                 [] outcome = "store_error" ->
                                      Failed(<<>>, store_vectors_in_redis(rd, index, doc_id, n - 1),
                                             "raised")
                                 [] OTHER ->
                                      [mysql |-> SetDoc(db, update_document_status(doc, "vectorized", <<n>>)),
                                       redis |-> store_vectors_in_redis(rd, index, doc_id, n),
                                       result |-> "True"]

\* POST /{kb_id}/documents: the knowledge base is looked up, the row inserted
create_document ==
    /\ mysql.doc_seq < MaxDocs
    /\ \E kb_id \in 1 .. MaxKbs, size \in 0 .. MaxChunks :
          IF KbById(kb_id) = {}
          THEN /\ kb_reply' = [NoReply EXCEPT !.fn = "create_document", !.kb_id = kb_id,
                                              !.outcome = "raised", !.error = "404"]
               /\ mysql' = mysql
          ELSE LET doc_id == mysql.doc_seq + 1
               IN  /\ mysql' = [mysql EXCEPT
                          !.doc_seq = doc_id,
                          !.kb_documents = @ \cup
                              {[id |-> doc_id, kb_id |-> kb_id, size |-> size,
                                status |-> "pending", chunk_count |-> 0, learned_id |-> 0]}]
                   /\ kb_reply' = [NoReply EXCEPT !.fn = "create_document", !.id = doc_id,
                                                  !.kb_id = kb_id, !.outcome = "returned"]
    /\ UNCHANGED <<redis, handler>>
    /\ UNCHANGED <<engine, services>>

\* PUT /{kb_id}/documents/{doc_id} with new content: the row keeps its status
\* and its chunk_count
update_document ==
    /\ \E doc \in mysql.kb_documents, size \in 0 .. MaxChunks :
          /\ size # doc.size
          /\ mysql' = SetDoc(mysql, [doc EXCEPT !.size = size])
          /\ kb_reply' = [NoReply EXCEPT !.fn = "update_document", !.id = doc.id,
                                         !.kb_id = doc.kb_id, !.outcome = "returned"]
    /\ UNCHANGED <<redis, handler>>
    /\ UNCHANGED <<engine, services>>

\* DELETE /{kb_id}/documents/{doc_id}: the chunk keys of the document are
\* removed, then its row
delete_document ==
    /\ \E doc \in mysql.kb_documents :
          /\ redis' = [redis EXCEPT !.chunks =
                          {c \in @ : ~ /\ c.doc = doc.id
                                        /\ \E row \in KbById(doc.kb_id) :
                                               c.index = IndexName(row.agent_type)}]
          /\ mysql' = [mysql EXCEPT !.kb_documents = @ \ {doc}]
          /\ kb_reply' = [NoReply EXCEPT !.fn = "delete_document", !.id = doc.id,
                                         !.kb_id = doc.kb_id, !.outcome = "returned"]
    /\ UNCHANGED handler
    /\ UNCHANGED <<engine, services>>

\* a call of VectorizationService.vectorize_document
vectorize_document ==
    /\ \E doc_id \in 1 .. MaxDocs, outcome \in VectorizeOutcomes :
          LET r == VectorizeDocument(mysql, redis, doc_id, outcome)
          IN  /\ mysql' = r.mysql
              /\ redis' = r.redis
              /\ kb_reply' = [NoReply EXCEPT !.fn = "vectorize_document", !.id = doc_id,
                                             !.outcome = r.result]
    /\ UNCHANGED handler
    /\ UNCHANGED <<engine, services>>

\* the ids of set S from the largest to the smallest: ORDER BY created_at DESC
RECURSIVE Descending(_)
Descending(S) ==
    IF S = {} THEN <<>>
    ELSE LET m == CHOOSE x \in S : \A y \in S : y <= x
         IN  <<m>> \o Descending(S \ {m})

RECURSIVE Selected(_, _, _)
\* [d for d in documents if d and d.kb_id == kb_id], as document ids
Selected(db, kb_id, ids) ==
    IF ids = <<>> THEN <<>>
    ELSE (IF \E d \in DocById(db, Head(ids)) : d.kb_id = kb_id THEN <<Head(ids)>> ELSE <<>>)
         \o Selected(db, kb_id, Tail(ids))

\* DocumentService.get_pending_documents, as document ids
get_pending_documents(db, kb_id) ==
    Descending({d.id : d \in {x \in db.kb_documents :
                                  x.kb_id = kb_id /\ x.status \in {"pending", "failed"}}})

\* the request bodies of POST /{kb_id}/vectorize: no document_ids, or a list of
\* one or two ids
DocumentIds ==
    {<<>>} \cup {<<a>> : a \in 1 .. MaxDocs} \cup {<<a, b>> : a, b \in 1 .. MaxDocs}

RECURSIVE VectorizeEach(_, _, _)
\* the loop of vectorize_kb over the documents ids, outcomes[i] deciding the
\* i-th call, from the tables, Redis and counters of acc: the tables and Redis
\* it leaves, processed, failed, and what each call was counted as
VectorizeEach(acc, ids, outcomes) ==
    IF ids = <<>> THEN acc
    ELSE LET r == VectorizeDocument(acc.mysql, acc.redis, Head(ids), Head(outcomes))
             success == r.result = "True"
         IN  VectorizeEach(
                 [mysql |-> r.mysql, redis |-> r.redis,
                  processed |-> IF success THEN acc.processed + 1 ELSE acc.processed,
                  failed |-> IF success THEN acc.failed ELSE acc.failed + 1,
                  counted |-> Append(acc.counted,
                                     [doc |-> Head(ids),
                                      as |-> IF success THEN "processed" ELSE "failed"])],
                 Tail(ids), Tail(outcomes))

\* POST /{kb_id}/vectorize: VectorizationService.vectorize_kb
vectorize_kb ==
    /\ \E kb_id \in 1 .. MaxKbs, document_ids \in DocumentIds :
          IF KbById(kb_id) = {}
          THEN /\ kb_reply' = [NoReply EXCEPT !.fn = "vectorize_kb", !.kb_id = kb_id,
                                              !.input = document_ids,
                                              !.outcome = "raised", !.error = "404"]
               /\ UNCHANGED <<mysql, redis>>
          ELSE \E documents \in {IF document_ids # <<>>
                                 THEN Selected(mysql, kb_id, document_ids)
                                 ELSE get_pending_documents(mysql, kb_id)} :
               \E outcomes \in [1 .. Len(documents) -> VectorizeOutcomes] :
               \E r \in {VectorizeEach([mysql |-> mysql, redis |-> redis, processed |-> 0,
                                        failed |-> 0, counted |-> <<>>],
                                       documents, outcomes)} :
                  /\ mysql' = r.mysql
                  /\ redis' = r.redis
                  /\ kb_reply' = [NoReply EXCEPT
                         !.fn = "vectorize_kb", !.kb_id = kb_id,
                         !.input = document_ids, !.outcome = "returned",
                         !.total_documents = Len(documents),
                         !.processed = r.processed,
                         !.failed = r.failed,
                         !.counted = r.counted]
    /\ UNCHANGED handler
    /\ UNCHANGED <<engine, services>>

\* one knowledge base, its documents edited and vectorized one by one
VectorsNext ==
    \/ create_kb(1, "generic")
    \/ create_document
    \/ update_document
    \/ delete_document
    \/ vectorize_document

SpecVectors == Init /\ [][VectorsNext]_vars

\* one knowledge base, its documents vectorized by the request
VectorizeKbNext ==
    \/ create_kb(1, "generic")
    \/ create_document
    \/ vectorize_kb

SpecVectorizeKb == Init /\ [][VectorizeKbNext]_vars

\* ------------------------------------------------------------------ kb-admin: learned knowledge
ReviewStatus == {"pending_review", "approved", "rejected"}

\* the row of learned_knowledge with this id, NoRow without one
LearnedRow(db, knowledge_id) ==
    IF \E row \in db.learned_knowledge : row.id = knowledge_id
    THEN CHOOSE row \in db.learned_knowledge : row.id = knowledge_id
    ELSE NoRow

SetLearned(db, row) ==
    [db EXCEPT !.learned_knowledge = {IF x.id = row.id THEN row ELSE x : x \in @}]

\* SELECT ... WHERE agent_type = %s AND status = 'active' ORDER BY created_at
\* DESC LIMIT 1: the id of the row, 0 without one (ValueError)
get_active_kb_by_agent(db, agent_type) ==
    LET active == {row.id : row \in {x \in db.knowledge_bases :
                                         x.agent_type = agent_type /\ x.status = "active"}}
    IN  IF active = {} THEN 0 ELSE CHOOSE m \in active : \A y \in active : y <= m

\* the parameters of DocumentService.create_document, none with a default
CreateDocumentParameters == {"doc_data"}

\* the keyword arguments _vectorize_approved_knowledge calls it with
CreateDocumentKeywords == {"kb_id", "title", "content", "metadata"}

\* a Python call with keyword arguments only binds when every keyword names a
\* parameter and every parameter without a default is given; otherwise the
\* call raises TypeError before the body runs
Binds(parameters, keywords) == keywords \subseteq parameters /\ parameters \subseteq keywords

\* POST /capture
capture_knowledge ==
    /\ mysql.lk_seq < MaxLearned
    /\ \E agent_type \in AgentTypes :
          LET row == [id |-> mysql.lk_seq + 1, agent_type |-> agent_type,
                      status |-> "pending_review", question |-> "q0"]
          IN  /\ mysql' = [mysql EXCEPT !.lk_seq = row.id, !.learned_knowledge = @ \cup {row}]
              /\ kb_reply' = [NoReply EXCEPT !.fn = "capture_knowledge", !.id = row.id,
                                             !.outcome = "returned", !.after = row]
    /\ UNCHANGED <<redis, handler>>
    /\ UNCHANGED <<engine, services>>

\* PUT /{knowledge_id} with data.question and data.status (None: not given)
update_knowledge ==
    /\ \E knowledge_id \in 1 .. MaxLearned, question \in {None, "q1"},
          status \in {None} \cup ReviewStatus :
          LET before == LearnedRow(mysql, knowledge_id)
              after == [before EXCEPT
                            !.question = IF question # None THEN question ELSE @,
                            !.status = IF status # None THEN status ELSE @]
              data == [question |-> question, status |-> status]
          IN  IF before = NoRow
              THEN /\ mysql' = mysql
                   /\ kb_reply' = [NoReply EXCEPT !.fn = "update_knowledge",
                                                  !.id = knowledge_id, !.input = data,
                                                  !.outcome = "raised", !.error = "404"]
              ELSE /\ mysql' = SetLearned(mysql, after)
                   /\ kb_reply' = [NoReply EXCEPT !.fn = "update_knowledge",
                                                  !.id = knowledge_id, !.input = data,
                                                  !.outcome = "returned",
                                                  !.before = before, !.after = after]
    /\ UNCHANGED <<redis, handler>>
    /\ UNCHANGED <<engine, services>>

\* POST /{knowledge_id}/review with review.status; size and outcome are the
\* content of the document and the behaviour of the collaborators of its
\* vectorization
review_knowledge ==
    /\ \E knowledge_id \in 1 .. MaxLearned, status \in ReviewStatus :
          LET before == LearnedRow(mysql, knowledge_id)
              after == [before EXCEPT !.status = status]
              reviewed == SetLearned(mysql, after)
              kb_id == get_active_kb_by_agent(reviewed, before.agent_type)
              Reply(result, error) ==
                  [NoReply EXCEPT !.fn = "review_knowledge", !.id = knowledge_id,
                                  !.input = status, !.outcome = result, !.error = error,
                                  !.before = before, !.after = after, !.kb_id = kb_id]
          IN  IF before = NoRow
              THEN /\ UNCHANGED <<mysql, redis>>
                   /\ kb_reply' = [NoReply EXCEPT !.fn = "review_knowledge",
                                                  !.id = knowledge_id, !.input = status,
                                                  !.outcome = "raised", !.error = "404"]
              ELSE IF status # "approved" \/ kb_id = 0
              THEN /\ mysql' = reviewed
                   /\ redis' = redis
                   /\ kb_reply' = Reply("returned", "-")
              ELSE IF ~Binds(CreateDocumentParameters, CreateDocumentKeywords)
              THEN /\ mysql' = reviewed
                   /\ redis' = redis
                   /\ kb_reply' = Reply("raised", "500")
              ELSE \E size \in 0 .. MaxChunks, outcome \in VectorizeOutcomes :
                   LET doc_id == reviewed.doc_seq + 1
                       created == [reviewed EXCEPT
                                      !.doc_seq = doc_id,
                                      !.kb_documents = @ \cup
                                          {[id |-> doc_id, kb_id |-> kb_id, size |-> size,
                                            status |-> "pending", chunk_count |-> 0,
                                            learned_id |-> knowledge_id]}]
                       r == VectorizeDocument(created, redis, doc_id, outcome)
                   IN  /\ mysql.doc_seq < MaxDocs
                       /\ mysql' = r.mysql
                       /\ redis' = r.redis
                       /\ kb_reply' = IF r.result = "raised" THEN Reply("raised", "500")
                                                              ELSE Reply("returned", "-")
    /\ UNCHANGED handler
    /\ UNCHANGED <<engine, services>>

\* DELETE /{knowledge_id}: DELETE ... WHERE id = %s AND status = 'pending_review'
delete_knowledge ==
    /\ \E knowledge_id \in 1 .. MaxLearned :
          LET before == LearnedRow(mysql, knowledge_id)
          IN  IF before = NoRow \/ before.status # "pending_review"
              THEN /\ mysql' = mysql
                   /\ kb_reply' = [NoReply EXCEPT !.fn = "delete_knowledge",
                                                  !.id = knowledge_id, !.before = before,
                                                  !.after = before,
                                                  !.outcome = "raised", !.error = "400"]
              ELSE /\ mysql' = [mysql EXCEPT !.learned_knowledge = @ \ {before}]
                   /\ kb_reply' = [NoReply EXCEPT !.fn = "delete_knowledge",
                                                  !.id = knowledge_id, !.before = before,
                                                  !.outcome = "returned"]
    /\ UNCHANGED <<redis, handler>>
    /\ UNCHANGED <<engine, services>>

\* one knowledge base, activated or not, and the learned knowledge of the agents
LearnedNext ==
    \/ create_kb(1, "generic")
    \/ activate_kb
    \/ capture_knowledge
    \/ update_knowledge
    \/ review_knowledge
    \/ delete_knowledge

SpecLearned == Init /\ [][LearnedNext]_vars

\* ------------------------------------------------------------------ claims
Last(msgs) == msgs[Len(msgs)]

\* no handler is between AskStart and its answer
Quiescent == \A r \in Reqs : ~Running(r)

\* the ToolMessages after position i that answer identifier id
Answers(msgs, i, id) ==
    {j \in (i + 1)..Len(msgs) : msgs[j].kind = "tool" /\ msgs[j].tcid = id}

\* every tool-call identifier of every AIMessage has exactly one ToolMessage after it
WellPaired(msgs) ==
    \A i \in DOMAIN msgs : \A id \in CallIds(msgs[i]) :
        Cardinality(Answers(msgs, i, id)) = 1

\* every tool-call identifier of every AIMessage has a ToolMessage after it
NoDangling(msgs) ==
    \A i \in DOMAIN msgs : \A id \in CallIds(msgs[i]) : Answers(msgs, i, id) # {}

\* m is the message tool_node appends for tool nm
IsResultOf(m, nm) == m = ToolResultAsHuman(nm)

\* the tool-call identifiers recorded in a history
RecordedIds(msgs) == UNION {CallIds(msgs[i]) : i \in DOMAIN msgs}

\* C1: once the /ask requests received so far have all been answered, the last
\* of them with "completed", the persisted history, with the repair pass
\* applied to it, has for every tool-call identifier of every AIMessage exactly
\* one ToolMessage with that identifier later in the history.
C1_PersistedHistoryWellPaired ==
    (Quiescent /\ response.status = "completed") =>
        \A t \in Threads : WellPaired(Repair(store[t].messages))

\* C2: the repair pass is idempotent: applied to a stored history it has already
\* repaired, it injects nothing.
C2_RepairIdempotent ==
    Quiescent =>
        \A t \in Threads :
            Repair(Repair(store[t].messages)) = Repair(store[t].messages)

\* C3: whenever requirement_node or developer_node is about to run, the history
\* it is given has no tool-call identifier without a ToolMessage answering it.
C3_AgentInputNoDangling ==
    \A r \in Reqs :
        (Running(r) /\ req[r].node \in AgentNodes /\ WithinLimit(req[r].steps))
            => NoDangling(req[r].messages)

\* C4: a tool request is dispatched at most once: no identifier has its tool
\* invoked twice, and the identifiers tool_node is about to dispatch are neither
\* recorded in the history stored before the request (repaired or not) nor
\* already dispatched.
C4_DispatchedAtMostOnce ==
    /\ \A id \in BagToSet(dispatched) : CopiesIn(id, dispatched) = 1
    /\ \A r \in Reqs :
          (Running(r) /\ req[r].node = "tools") =>
              LET ids == ToolDispatch(Last(req[r].messages))
              IN  \A k \in DOMAIN ids :
                      /\ ids[k] \notin RecordedIds(req[r].before)
                      /\ ~BagIn(ids[k], dispatched)

\* C4 witness: a request found a history ending in an AIMessage whose tool call
\* had been dispatched (the tool raised) and was unanswered; its repair pass put
\* the placeholder right after it, its agent has replied, and the tool has
\* still been invoked once in all.
C4_Witness ==
    \E r \in Reqs :
        /\ Running(r)
        /\ req[r].steps >= 1
        /\ LET msgs == req[r].before
           IN  \E i \in DOMAIN msgs : \E id \in CallIds(msgs[i]) :
                   /\ i + 1 \in Answers(msgs, i, id)
                   /\ CopiesIn(id, req[r].seen) = 1
                   /\ CopiesIn(id, dispatched) = 1

\* C5: /ask executions on one thread_id are serialized: no two handlers are
\* between their repair pass and their answer on the same thread at once.
C5_Serialized ==
    \A r1, r2 \in Reqs :
        (r1 # r2 /\ Running(r1) /\ Running(r2)) => req[r1].tid # req[r2].tid

\* C6: when app_graph.invoke raises, the checkpoint of the thread holds the
\* history it held when the invoke began: nothing of the failed request is stored.
C6_FailedAskLeavesNoTrace ==
    [][\A r \in Reqs :
          (Running(r) /\ ~Running(r)' /\ response'.status # "completed")
              => store'[req[r].tid].messages = req[r].before]_vars

C8_HandoffToDeveloper ==
    /\ \A r \in Reqs :
          (Running(r) /\ IsResultOf(Last(req[r].messages), "save_requirements"))
              => req[r].node = "developer_agent"
    /\ response.status = "completed"
          => ~IsResultOf(response.last, "save_requirements")

\* C8 witness: a run has the save_requirements result as its last message and
\* the developer agent as its next node.
C8_Witness ==
    \E r \in Reqs :
        /\ Running(r)
        /\ IsResultOf(Last(req[r].messages), "save_requirements")
        /\ req[r].node = "developer_agent"

\* the conversation has been handed off: a save_requirements result is recorded
HandedOff(msgs) ==
    \E i \in DOMAIN msgs : IsResultOf(msgs[i], "save_requirements")

\* C9: once a conversation has been handed off to the developer agent, the
\* first node run for a later human message (received when no other request is
\* in flight) is developer_agent.
C9_ActiveAgentPersisted ==
    \A r \in Reqs :
        (/\ Running(r)
         /\ req[r].steps = 0
         /\ HandedOff(req[r].before)
         /\ \A q \in Reqs \ {r} : ~Running(q))
            => req[r].node = "developer_agent"

\* C10: nothing runs after the result of save_solution: no run that is still
\* in flight has that result as its last message.
C10_TerminalAfterSaveSolution ==
    \A r \in Reqs :
        Running(r) => ~IsResultOf(Last(req[r].messages), "save_solution")

\* C10 witness: a run ended, answered "completed", with the save_solution result
\* as its last message.
C10_Witness ==
    /\ response.status = "completed"
    /\ IsResultOf(response.last, "save_solution")

\* the conversation is Terminal: a save_solution result is recorded
Terminal(msgs) ==
    \E i \in DOMAIN msgs : IsResultOf(msgs[i], "save_solution")

\* C11: Terminal is absorbing: a request received on a conversation whose
\* stored history records a save_solution result runs no superstep (no agent
\* step, no tool dispatch).
C11_TerminalAbsorbing ==
    \A r \in Reqs :
        (Running(r) /\ Terminal(req[r].before)) => req[r].steps = 0

\* the agent whose reply is the last AIMessage of the run of r: the entry point
\* runs first, and every edge out of "tools" leads to developer_agent or END
Issuer(r) ==
    IF req[r].steps = 1 THEN "requirement_agent" ELSE "developer_agent"

\* C12: when tool_node returns for a request whose tool is neither
\* save_requirements nor save_solution, the next node is the agent that issued
\* the request.
C12_SameAgentAfterOtherTool ==
    [][\A r \in Reqs :
          (/\ tool_node(r)
           /\ HasToolCalls(Last(req[r].messages))
           /\ Last(req[r].messages).calls[1].name
                  \notin {"save_requirements", "save_solution"})
              => (Running(r)' /\ req'[r].node = Issuer(r))]_vars

\* C13: the route out of requirement_agent and out of developer_agent depends
\* only on the reply: a reply with tool calls is followed by the tools node, a
\* reply without ends the run, which is answered "completed" with that reply
\* as its last message.
\* (a step of a node always changes req[r]: its history grows or it goes idle.)
C13_RoutingByToolRequests ==
    [][\A r \in Reqs :
          (req'[r] # req[r] /\ (requirement_node(r) \/ developer_node(r))) =>
              LET reply == Last(store'[req[r].tid].messages)
              IN  IF HasToolCalls(reply)
                  THEN Running(r)' /\ req'[r].node = "tools"
                  ELSE /\ ~Running(r)'
                       /\ response'.status = "completed"
                       /\ response'.last = reply]_vars

\* C13 witness: a run was suspended after a reply of developer_agent without
\* tool calls, and a later run is at the tools node after a reply of
\* requirement_agent with tool calls.
C13_Witness ==
    /\ response.status = "completed"
    /\ response.steps = 3
    /\ response.last = AIMessage(<<>>)
    /\ \E r \in Reqs :
          /\ Running(r)
          /\ req[r].steps = 1
          /\ req[r].node = "tools"
          /\ HasToolCalls(Last(req[r].messages))

\* C14: when tool_node returns for a request whose tool name is outside the
\* registry (it never raises for one), the history has grown by one message,
\* a result for that request.
C14_UnknownToolGetsErrorResult ==
    [][\A r \in Reqs :
          (/\ tool_node(r)
           /\ HasToolCalls(Last(req[r].messages))
           /\ Last(req[r].messages).calls[1].name \notin KnownTools)
              => LET msgs == store'[req[r].tid].messages
                     call == Last(req[r].messages).calls[1]
                 IN  /\ Len(msgs) = Len(req[r].messages) + 1
                     /\ \/ Last(msgs) = ToolMessage(call.id, call.name)
                        \/ Last(msgs) = ToolResultAsHuman(call.name)]_vars

\* C15: when tool_node returns for a reply that carries tool calls, all of
\* them of tools of the registry, every one of them has had its tool invoked
\* and the history has grown by one result per call.
C15_AllRequestsDispatched ==
    [][\A r \in Reqs :
          (/\ tool_node(r)
           /\ HasToolCalls(Last(req[r].messages))
           /\ \A k \in DOMAIN Last(req[r].messages).calls :
                  Last(req[r].messages).calls[k].name \in KnownTools)
              => LET reply == Last(req[r].messages)
                     msgs == store'[req[r].tid].messages
                 IN  /\ \A id \in CallIds(reply) : BagIn(id, dispatched')
                     /\ Len(msgs) = Len(req[r].messages) + Len(reply.calls)]_vars

\* a Human or AgentReply turn: the user's message or an agent's reply
IsTurn(m) == m = HumanMessage \/ m.kind = "ai"

\* C16: the placeholders the repair pass adds to a stored history answer the
\* AIMessage at position LastToolCallIndex; they are put at the end, so no
\* Human or AgentReply turn may lie between that position and the end.
C16_PlaceholderBeforeNextTurn ==
    Quiescent =>
        \A t \in ThreadIds :
            LET msgs == store[t].messages
                i == LastToolCallIndex(msgs)
            IN  RepairInjection(msgs) # <<>> =>
                    \A j \in (i + 1)..Len(msgs) : ~IsTurn(msgs[j])

\* the position of the most recent AIMessage of a history, 0 if it has none
LastReplyIndex(msgs) ==
    LET S == {i \in DOMAIN msgs : msgs[i].kind = "ai"}
    IN  IF S = {} THEN 0 ELSE CHOOSE i \in S : \A j \in S : j <= i

\* C17: when the most recent AIMessage of a stored history has no tool calls,
\* or every one of its tool calls has a ToolMessage after it, the repair pass
\* adds nothing.
C17_RepairLooksAtLastReplyOnly ==
    Quiescent =>
        \A t \in ThreadIds :
            LET msgs == store[t].messages
                k == LastReplyIndex(msgs)
            IN  (k = 0 \/ \A id \in CallIds(msgs[k]) : Answers(msgs, k, id) # {})
                    => RepairInjection(msgs) = <<>>

\* the run of r is on a new thread, its first reply (of requirement_agent)
\* carries one save_requirements tool call, and no agent has replied since
HandoffScenario(r) ==
    LET msgs == req[r].messages
    IN  /\ req[r].before = <<>>
        /\ Len(msgs) >= 2
        /\ Len(msgs[2].calls) = 1
        /\ msgs[2].calls[1].name = "save_requirements"
        /\ \A j \in 3..Len(msgs) : msgs[j].kind # "ai"

C19_NewConversationPlainReply ==
    [][\A r \in Reqs :
          (requirement_node(r) /\ req[r].is_new_conversation /\ ~Running(r)') =>
              /\ response' = Response(r, "completed", 1, AIMessage(<<>>))
              /\ response'.tid \in Generated \ Threads
              /\ req[r].before = <<>>
              /\ \A q \in Reqs \ {r} : req[q].tid # req[r].tid
              /\ store'[response'.tid].messages = <<HumanMessage, AIMessage(<<>>)>>]_vars

\* C19 witness: a request without thread_id was answered "completed" after one
\* superstep, and its generated thread holds the two messages.
C19_Witness ==
    /\ response.status = "completed"
    /\ response.steps = 1
    /\ response.tid \in Generated
    /\ store[response.tid].messages = <<HumanMessage, AIMessage(<<>>)>>

\* C20: the "response" field of a "completed" answer is the content of an
\* AIMessage, never that of the result of a tool.
C20_ResponseIsAgentReply ==
    response.status = "completed" => response.last.kind = "ai"

\* a conversational turn: a message typed by the operator or a reply without
\* tool calls
IsConversational(m) == m = HumanMessage \/ m = AIMessage(<<>>)

\* C21: for every stored history, GET /conversation lists exactly its
\* conversational turns, in order and with their roles (no AIMessage with tool
\* calls, no result of a tool, no placeholder of the repair pass), and
\* message_count is the number of messages listed.
C21_ConversationListing ==
    \A t \in ThreadIds :
        LET out == GetConversation(store[t].messages)
            turns == SelectSeq(store[t].messages, IsConversational)
        IN  /\ Len(out.messages) = Len(turns)
            /\ \A k \in DOMAIN turns :
                  /\ out.messages[k].message = turns[k]
                  /\ out.messages[k].role =
                        IF turns[k] = HumanMessage THEN "user" ELSE "assistant"
            /\ out.message_count = Len(out.messages)

\* C21 witness: a stored history holds an AIMessage with tool calls, the result
\* of a tool, a placeholder of the repair pass and a reply without tool calls,
\* and the listing is shorter than the history.
C21_Witness ==
    \E t \in ThreadIds :
        LET msgs == store[t].messages
        IN  /\ \E i \in DOMAIN msgs : HasToolCalls(msgs[i])
            /\ \E i \in DOMAIN msgs : msgs[i].kind = "human" /\ msgs[i].name # "none"
            /\ \E i \in DOMAIN msgs : msgs[i].kind = "tool"
            /\ \E i \in DOMAIN msgs : msgs[i] = AIMessage(<<>>)
            /\ GetConversation(msgs).message_count >= 2
            /\ GetConversation(msgs).message_count < Len(msgs)

\* C22: an /ask is answered with HTTP 400 only for a missing or invalid model
\* configuration (the ValueError of get_llm); every other failure is answered
\* with HTTP 500.
C22_ErrorsClassified ==
    /\ response.status = "config_error" => StatusCode(response.status) = 400
    /\ response.status \notin {"none", "completed", "config_error"}
          => StatusCode(response.status) = 500

\* C23: conversations are independent: a step changes the checkpoint of a
\* thread only if it is a step of a request on that thread; the history and
\* the next_step of every other thread are left as they were.
C23_ThreadsIndependent ==
    [][\A b \in ThreadIds :
          store'[b] # store[b] =>
              \E r \in Reqs :
                  /\ req'[r] # req[r]
                  /\ req[r].tid = b \/ req'[r].tid = b]_vars

\* C23 witness: two requests are in flight on different threads, each past its
\* first superstep, and both threads hold their own history.
C23_Witness ==
    \E r1, r2 \in Reqs :
        /\ Running(r1) /\ Running(r2)
        /\ req[r1].tid # req[r2].tid
        /\ req[r1].steps >= 1 /\ req[r2].steps >= 1
        /\ store[req[r1].tid].messages # <<>>
        /\ store[req[r2].tid].messages # <<>>

SaveFns == {"save_requirements_to_laravel", "save_solution_to_laravel"}

\* the POST requests of the call that were answered with status 200
Status200(log) ==
    {i \in DOMAIN log : log[i].outcome \in {"200", "200_undecodable"}}

\* the POST requests of the call that were answered with status 200 and a body
\* that decodes
Decoded200(log) == {i \in DOMAIN log : log[i].outcome = "200"}

UpdateFns == {"update_solution_requirements", "update_solution_technical"}

\* C27: update_solution_requirements and update_solution_technical stop at the
\* first success: a PUT answered 200 (after a lookup answered 200 with data) is
\* the only PUT of the call and its last request, and the call returns the data.
C27_StopAtFirstSuccess ==
    invocation.fn \in UpdateFns =>
        LET log == invocation.log
        IN  \A i \in Requests(log, "PUT") :
                log[i].outcome = "200" =>
                    /\ i = Len(log)
                    /\ Cardinality(Requests(log, "PUT")) = 1
                    /\ invocation.pc = "returned"
                    /\ invocation.result.value = "data"

Stored(cache) == <<cache.present, cache.provider, cache.api_key>>

\* C29: get_api_key_from_laravel contacts Laravel at most 3 times per call;
\* every request but the last of a call ended in Timeout or ConnectionError
\* (no retry after a response of any status); the call returns a value or None,
\* None whenever its last request did not get the successful response; and the
\* cache takes a value only in the step that got the successful response, the
\* value of that response.
C29_RetryOnlyOnTransportErrors ==
    [][ /\ invocation'.fn = "get_api_key_from_laravel" =>
             LET log == invocation'.log
             IN  /\ Len(log) <= MaxRetries
                 /\ \A i \in 1 .. Len(log) - 1 :
                        log[i].outcome \in {"timeout", "connection_error"}
                 /\ invocation'.pc = "returned" =>
                        /\ invocation'.result.value \in {"data", "None"}
                        /\ (log # <<>> /\ log[Len(log)].outcome # "200")
                               => invocation'.result.value = "None"
        /\ Stored(api_key_cache') # Stored(api_key_cache) =>
             LET log == invocation'.log
             IN  /\ log # <<>>
                 /\ Len(log) = Len(invocation.log) + 1
                 /\ log[Len(log)].outcome = "200"
                 /\ api_key_cache'.fresh
                 /\ invocation'.fn = "get_api_key_from_laravel" =>
                        /\ invocation'.result.value = "data"
                        /\ invocation'.result.provider = api_key_cache'.provider
                        /\ invocation'.result.api_key = api_key_cache'.api_key
      ]_vars

\* a call that was answered by a third request after two transport errors
C29_Witness ==
    /\ invocation.fn = "get_api_key_from_laravel"
    /\ invocation.pc = "returned"
    /\ Len(invocation.log) = MaxRetries
    /\ invocation.log[1].outcome = "timeout"
    /\ invocation.log[2].outcome = "connection_error"
    /\ invocation.log[3].outcome = "200"
    /\ invocation.result.value = "data"
    /\ api_key_cache.present

\* C26: whenever get_llm_config is given a non-empty ai_provider and a
\* non-empty ai_api_key, Laravel is never contacted and the configuration that
\* is returned carries the supplied key, whatever the provider string.
C26_SuppliedSettingsUsed ==
    (/\ invocation.fn = "get_llm_config"
     /\ invocation.input.ai_provider \notin Falsy
     /\ invocation.input.ai_api_key \notin Falsy)
        => /\ invocation.log = <<>>
           /\ invocation.pc = "returned" =>
                 /\ invocation.result.value = "data"
                 /\ invocation.result.api_key = invocation.input.ai_api_key

\* C25: POST /publish and POST /republish with a missing or empty thread_id or
\* requirements answer status 400 with the detail 'thread_id and requirements
\* are required', and generate_technical_solution is not invoked.
C25_MissingInputRejected400 ==
    (/\ invocation.fn \in {"publish_solution", "republish_solution"}
     /\ invocation.pc = "returned"
     /\ (invocation.input.thread_id \in Falsy \/ invocation.input.doc \in Falsy))
        => /\ invocation.result.status_code = 400
           /\ invocation.result.detail = RequiredDetail
           /\ ~invocation.result.generated

\* C24: save_requirements and save_solution are idempotent: invoking the tool
\* again with the document and thread_id of the invocation before leaves
\* session_memory as that invocation left it.
C24_SaveIsIdempotent ==
    [][ (/\ invocation'.fn \in {"save_requirements", "save_solution"}
         /\ invocation.fn = invocation'.fn
         /\ invocation.input = invocation'.input)
            => session_memory' = session_memory ]_vars

\* C30: /ask treats a conversation as new exactly when it generated the
\* thread_id itself: a completed request whose thread_id the server generated
\* has a title derived and, once its metadata is saved, create_solution called
\* once; a request that reuses a thread_id has neither.
C30_NewIffThreadGenerated ==
    (/\ invocation.fn = "ask_question"
     /\ invocation.pc = "returned"
     /\ invocation.result.status_code = 200)
        => LET generated == invocation.result.value \in Generated
               saved == invocation.log[1].outcome = "200"
           IN  /\ invocation.result.title = generated
               /\ invocation.result.solutions_created =
                     (IF generated /\ saved THEN 1 ELSE 0)

\* C31: the repair pass only appends: for every stored history the repaired
\* history has the stored one as a prefix, every turn it adds is a placeholder
\* ToolMessage whose identifier is a tool-call identifier of the AIMessage the
\* pass inspected, carrying that call's name, and no identifier is given two
\* placeholders in one pass.
C31_RepairOnlyAppends ==
    \A t \in ThreadIds :
        LET msgs == store[t].messages
            repaired == Repair(msgs)
            i == LastToolCallIndex(msgs)
            added == (Len(msgs) + 1) .. Len(repaired)
        IN  /\ Len(repaired) >= Len(msgs)
            /\ SubSeq(repaired, 1, Len(msgs)) = msgs
            /\ \A k \in added :
                  /\ i # 0
                  /\ repaired[k].kind = "tool"
                  /\ \E c \in DOMAIN msgs[i].calls :
                        repaired[k] = ToolMessage(msgs[i].calls[c].id, msgs[i].calls[c].name)
            /\ \A k, l \in added : repaired[k].tcid = repaired[l].tcid => k = l

\* a handler took a history that had turns after the inspected AIMessage, and
\* its repair pass put two placeholders, of different identifiers, at the end
C31_Witness ==
    \E r \in Reqs :
        /\ Running(r)
        /\ LET msgs == req[r].before
               n == Len(msgs)
           IN  /\ n >= 4
               /\ msgs[n].kind = "tool"
               /\ msgs[n - 1].kind = "tool"
               /\ msgs[n].tcid # msgs[n - 1].tcid
               /\ msgs[n - 2].kind = "human"

\* C35: at most one knowledge base exists per agent type, whatever the
\* interleaving of create_kb and delete_kb calls: no two rows of
\* knowledge_bases share an agent_type, and a create_kb that found a row of its
\* agent type raised 'Knowledge Base already exists'.
C35_OneKbPerAgentType ==
    /\ \A a, b \in mysql.knowledge_bases : a.agent_type = b.agent_type => a.id = b.id
    /\ \A w \in Workers :
          (handler[w].fn = "create_kb" /\ handler[w].existed)
              => /\ handler[w].pc = "raised"
                 /\ handler[w].error = "Knowledge Base already exists"

\* the idx of the chunk keys Redis holds for a document under the index of its
\* knowledge base
StoredChunks(doc) ==
    {c.idx : c \in {k \in redis.chunks :
                       /\ k.doc = doc.id
                       /\ \E row \in KbById(doc.kb_id) : k.index = IndexName(row.agent_type)}}

\* C36: whenever a document has status vectorized, the chunk keys Redis holds
\* for it are exactly those of idx 0 .. chunk_count - 1: no chunk of an
\* earlier vectorization of longer content is left.
C36_StoredVectorsMatchChunkCount ==
    \A doc \in mysql.kb_documents :
        doc.status = "vectorized" => StoredChunks(doc) = 0 .. (doc.chunk_count - 1)

\* vectorize_kb has just returned its result
VectorizeKbReturned == kb_reply.fn = "vectorize_kb" /\ kb_reply.outcome = "returned"

\* the status the row of document doc_id has now
StatusOf(doc_id) == (CHOOSE d \in DocById(mysql, doc_id) : TRUE).status

\* what a call of vectorize_document that was counted as `as` is said to leave
StatusCounted(as) == IF as = "processed" THEN "vectorized" ELSE "failed"

C32_EditedOnlyBeforeReview ==
    (kb_reply.fn = "update_knowledge" /\ kb_reply.outcome = "returned") =>
        /\ kb_reply.before.status # "pending_review" => kb_reply.after = kb_reply.before
        /\ kb_reply.after.status = "approved" => kb_reply.before.status = "approved"

\* C33 as stated: review_knowledge with status approved on an existing record
\* whose agent type has an active knowledge base returns the record with
\* status approved, and a vectorized document made of it is in that knowledge
\* base.
C33_ApprovalPublishes ==
    (/\ kb_reply.fn = "review_knowledge"
     /\ kb_reply.input = "approved"
     /\ kb_reply.before # NoRow
     /\ kb_reply.kb_id # 0) =>
        /\ kb_reply.outcome = "returned"
        /\ LearnedRow(mysql, kb_reply.id).status = "approved"
        /\ \E doc \in mysql.kb_documents :
              /\ doc.kb_id = kb_reply.kb_id
              /\ doc.learned_id = kb_reply.id
              /\ doc.status = "vectorized"

====
